---- MODULE Spec2Model ----
(***************************************************************************)
(* The document lifecycle and grade-prediction pipeline of                 *)
(* grading-calendar-ai (src/functions/*.py), as a state machine over the   *)
(* Firestore collections the cloud functions read and write.               *)
(*                                                                         *)
(* A Firestore document is a TLA+ record whose DOMAIN is the set of keys   *)
(* the code wrote; a collection is a function from the ids that exist to   *)
(* their documents.  An auto id (collection.document(), uuid4) is unique;   *)
(* the n-th record created in a collection gets the id n, which also       *)
(* orders the createdAt values of that collection.                         *)
(* Grades are fixed-point numbers in tenths of a grade point (900 = 90.0). *)
(***************************************************************************)
EXTENDS Integers, Sequences, FiniteSets, TLC

\* ------------------------------------------------------------------ bounds
\* Records with an auto id that the upload, extraction and simple_predict_grade
\* handlers create in one behaviour.
MaxIds == 2
\* Records that predict_final_grade, predict_with_linear_regression and
\* get_combined_prediction each create in their collection in one behaviour.
MaxPredIds == 1
\* Rows that add_training_data appends to the training set in one behaviour.
MaxAdds == 2
\* Regression requests that are between their read and their write at once.
MaxCalls == 2

\* ------------------------------------------------------------ input domains
Users == {"u1", "u2"}
\* req.auth is None
NoAuth == "anonymous"
Callers == Users \cup {NoAuth}
\* req.data.get(...) returned None: a string, an id, a file path
Missing == "missing"
MissingId == 0
MissingPath == [user |-> Missing, type |-> Missing, name |-> 0]
\* document types a caller may send; "grades" is a type of the data model
RequestTypes == {"syllabus", "transcript", "grades", Missing}
\* documentBase64 as sent: absent, decodable, or not valid base64
Base64Inputs == {Missing, "pdf", "malformed"}
\* what PyMuPDF yields for a stored file: page text, or it cannot open the file
Texts == {"", "text"}
PdfOutcomes == Texts \cup {"download_error", "corrupt"}
\* whether the completion of process_*_internal parses as JSON
LlmParses == {TRUE, FALSE}

VARIABLES
  uploads,               \* users/{uid}/document_uploads/{id}
  docs,                  \* users/{uid}/documents/{type}
  structured,            \* users/{uid}/syllabi|transcripts|assignments/{id}
  events,                \* object-finalized events not yet handled
  predictions,           \* users/{uid}/predictions/{id}
  ml_predictions,        \* users/{uid}/ml_predictions/{id}
  combined_predictions,  \* users/{uid}/combined_predictions/{id}
  training_data,         \* training_data/students
  created,               \* auto-id records made by the document handlers
  calls,                 \* requests between two of their steps
  last                   \* the last call: function, caller, outcome

vars == <<uploads, docs, structured, events, predictions, ml_predictions,
          combined_predictions, training_data, created, calls, last>>

store == <<uploads, docs, structured, predictions, ml_predictions,
           combined_predictions, training_data>>

\* the empty collection
Empty == <<>>

\* f"users/{user_id}/{document_type}/{filename}"
FilePath(user_id, document_type, filename) ==
  [user |-> user_id, type |-> document_type, name |-> filename]

\* the ids in use in a collection, over all users
Ids(coll) == UNION {DOMAIN coll[u] : u \in Users}

\* a fixed document id, as collection.document("1") would give
FixedId(coll) == 1

\* collection.document(): a fresh id
NewId(coll) == Cardinality(Ids(coll)) + 1

\* a write that creates the document and leaves an existing one as it is
CreateDoc(coll, id, data) ==
  IF id \in DOMAIN coll THEN coll
  ELSE [k \in DOMAIN coll \cup {id} |-> IF k = id THEN data ELSE coll[k]]

\* collection.document(id).set(data): create or replace
SetDoc(coll, id, data) ==
  [k \in DOMAIN coll \cup {id} |-> IF k = id THEN data ELSE coll[k]]

\* doc_ref.update(fields): change the named keys, keep the others
UpdateDoc(doc, fields) ==
  [k \in DOMAIN doc \cup DOMAIN fields |->
     IF k \in DOMAIN fields THEN fields[k] ELSE doc[k]]

\* Lookup that searches the collection of every user
LookupAnyOwner(coll, uid, id) ==
  {coll[u][id] : u \in {v \in Users : id \in DOMAIN coll[v]}}

\* collection(uid).document(id).get(): the document, if it exists
Lookup(coll, uid, id) ==
  IF id \in DOMAIN coll[uid] THEN {coll[uid][id]} ELSE {}

\* doc.to_dict() of a document Lookup found
ToDict(found) == CHOOSE d \in found : TRUE

\* dict.get(key, default)
Get(d, key, default) == IF key \in DOMAIN d THEN d[key] ELSE default

\* a request slot that is not in use
FreeSlot == CHOOSE n \in 1..MaxCalls : n \notin DOMAIN calls

Init ==
  /\ uploads = [u \in Users |-> Empty]
  /\ docs = [u \in Users |-> Empty]
  /\ structured = [u \in Users |-> Empty]
  /\ events = {}
  /\ predictions = [u \in Users |-> Empty]
  /\ ml_predictions = [u \in Users |-> Empty]
  /\ combined_predictions = [u \in Users |-> Empty]
  /\ training_data = Empty
  /\ created = 0
  /\ calls = Empty
  /\ last = [op |-> "init", code |-> "OK"]

\* a rejection that first creates the training-set document when it is absent
RaiseAfterCreate(op, caller, code) ==
  /\ last' = [op |-> op, code |-> code]
  /\ training_data' =
       IF training_data = Empty THEN [students |-> <<>>] ELSE training_data
  /\ UNCHANGED <<uploads, docs, structured, events, predictions,
                 ml_predictions, combined_predictions, created, calls>>

\* raise https_fn.HttpsError(code) before any write
Raise(op, caller, code) ==
  /\ last' = [op |-> op, code |-> code]
  /\ UNCHANGED <<store, events, created, calls>>

\* -------------------------------------------------- document_processing.py
UploadStatus == "uploaded"

upload_and_process_document(caller, document_type, document_base64) ==
  IF caller = NoAuth
    THEN Raise("upload_and_process_document", caller, "UNAUTHENTICATED")
  ELSE IF document_type \notin {"syllabus", "transcript"}
    THEN Raise("upload_and_process_document", caller, "INVALID_ARGUMENT")
  ELSE IF document_base64 = Missing
    THEN Raise("upload_and_process_document", caller, "INVALID_ARGUMENT")
  ELSE IF document_base64 = "malformed"
    \* base64.b64decode raises inside the try, before the blob is uploaded
    THEN Raise("upload_and_process_document", caller, "INTERNAL")
  ELSE
    /\ created < MaxIds
    /\ LET id == NewId(uploads)
           file_path == FilePath(caller, document_type, id)
           doc_data == [filePath |-> file_path,
                        documentType |-> document_type,
                        uploadedAt |-> id,
                        status |-> UploadStatus]
       IN /\ events' = events \cup {file_path}
          /\ uploads' = [uploads EXCEPT ![caller] = SetDoc(@, id, doc_data)]
          /\ last' = [op |-> "upload_and_process_document", code |-> "OK",
                      documentId |-> id, filePath |-> file_path]
    /\ created' = created + 1
    /\ UNCHANGED <<docs, structured, predictions, ml_predictions,
                   combined_predictions, training_data,
                   calls>>

\* a test that only asks whether documents/{type} exists
ProcessedAnyFile(processed_doc, doc_data) == processed_doc # {}

\* processed_doc.exists and processed_data.get("filePath") ==
\* doc_data.get("filePath")
Processed(processed_doc, doc_data) ==
  /\ processed_doc # {}
  /\ Get(ToDict(processed_doc), "filePath", MissingPath) = doc_data.filePath

\* a status get_document_status could write instead, skipping 'processed'
FailedStatus == "failed"

\* the status get_document_status writes once the file has been extracted
ProcessedStatus == "processed"

get_document_status(caller, document_id) ==
  IF caller = NoAuth
    THEN Raise("get_document_status", caller, "UNAUTHENTICATED")
  ELSE IF document_id = MissingId
    THEN Raise("get_document_status", caller, "INVALID_ARGUMENT")
  ELSE IF Lookup(uploads, caller, document_id) = {}
    \* NOT_FOUND is raised inside the try and re-raised by `except Exception`
    THEN Raise("get_document_status", caller, "INTERNAL")
  ELSE
    LET doc_data == ToDict(Lookup(uploads, caller, document_id))
        document_type == doc_data.documentType
        processed_doc == Lookup(docs, caller, document_type)
        shown == IF Processed(processed_doc, doc_data)
                   THEN UpdateDoc(doc_data, [status |-> ProcessedStatus])
                   ELSE doc_data
    IN /\ uploads' = [uploads EXCEPT ![caller][document_id] = shown]
       /\ last' = [op |-> "get_document_status", code |-> "OK",
                   status |-> shown.status]
       /\ UNCHANGED <<docs, structured, events, predictions, ml_predictions,
                      combined_predictions, training_data, created,
                      calls>>

\* ------------------------------------------------------------------ ocr.py
\* process_syllabus_internal / process_transcript_internal: one completion,
\* json.loads, one new record; every exception is caught and None returned.
\* The structured data is kept as the text it was extracted from.
process_internal(user_id, document_type, text, parses) ==
  IF parses /\ created < MaxIds
    THEN /\ structured' = [structured EXCEPT ![user_id] =
                SetDoc(@, NewId(structured),
                       [kind |-> document_type, data |-> [source |-> text],
                        createdAt |-> NewId(structured)])]
         /\ created' = created + 1
    ELSE UNCHANGED <<structured, created>>

\* firestore.SERVER_TIMESTAMP on a record that is overwritten in place
ServerTimestamp == "SERVER_TIMESTAMP"

\* a record whose text is appended to the text already stored
AdditiveDoc(text, file_path) ==
  LET stored == Lookup(docs, file_path.user, file_path.type)
      prior == IF stored = {} THEN "" ELSE Get(ToDict(stored), "text", "")
  IN [text |-> prior \o text, filePath |-> file_path,
      uploadedAt |-> "SERVER_TIMESTAMP"]

\* the record process_uploaded_pdf stores under documents/{type}
ExtractedDoc(text, file_path) ==
  [text |-> text, filePath |-> file_path, uploadedAt |-> ServerTimestamp]

process_uploaded_pdf(file_path, outcome, parses) ==
  /\ file_path \in events
  /\ events' = events \ {file_path}
  /\ LET user_id == file_path.user
         document_type == file_path.type
     IN IF outcome \notin Texts
          \* blob.download_to_filename or fitz.open raised: the exception
          \* leaves the function, nothing is written
          THEN /\ last' = [op |-> "process_uploaded_pdf", code |-> "ERROR"]
               /\ UNCHANGED <<docs, structured, created>>
          ELSE /\ docs' = [docs EXCEPT ![user_id] =
                      SetDoc(@, document_type,
                             ExtractedDoc(outcome, file_path))]
               /\ IF document_type \in {"syllabus", "transcript"}
                    THEN process_internal(user_id, document_type, outcome,
                                          parses)
                    ELSE UNCHANGED <<structured, created>>
               /\ last' = [op |-> "process_uploaded_pdf", code |-> "OK"]
  /\ UNCHANGED <<uploads, predictions, ml_predictions, combined_predictions,
                 training_data, calls>>

\* the trigger up to the end of the text extraction (line 44): it has read
\* the file and holds the text, other invocations may run before it writes
process_uploaded_pdf_extract(file_path, outcome) ==
  /\ file_path \in events
  /\ events' = events \ {file_path}
  /\ IF outcome \notin Texts
       THEN /\ last' = [op |-> "process_uploaded_pdf", code |-> "ERROR"]
            /\ UNCHANGED calls
       ELSE /\ Cardinality(DOMAIN calls) < MaxCalls
            /\ calls' = SetDoc(calls, FreeSlot,
                               [op |-> "process_uploaded_pdf",
                                file_path |-> file_path, text |-> outcome])
            /\ UNCHANGED last
  /\ UNCHANGED <<store, created>>

\* the rest of that invocation: doc_ref.set (line 48) and the structured
\* extraction
process_uploaded_pdf_set(slot, parses) ==
  /\ slot \in DOMAIN calls
  /\ calls[slot].op = "process_uploaded_pdf"
  /\ LET file_path == calls[slot].file_path
         text == calls[slot].text
     IN /\ docs' = [docs EXCEPT ![file_path.user] =
                     SetDoc(@, file_path.type, ExtractedDoc(text, file_path))]
        /\ IF file_path.type \in {"syllabus", "transcript"}
             THEN process_internal(file_path.user, file_path.type, text,
                                   parses)
             ELSE UNCHANGED <<structured, created>>
  /\ last' = [op |-> "process_uploaded_pdf", code |-> "OK"]
  /\ calls' = [n \in DOMAIN calls \ {slot} |-> calls[n]]
  /\ UNCHANGED <<uploads, events, predictions, ml_predictions,
                 combined_predictions, training_data>>

\* the code the other handlers end with, which wrap NOT_FOUND in their except
WrappedCode == "INTERNAL"

\* the code extract_text_from_pdf raises when documents/{type} does not exist
NotProcessedCode == "NOT_FOUND"

\* a path test that lets every path through
AnyPath(caller, file_path) == TRUE

\* file_path.startswith(f"users/{user_id}/")
OwnsPath(caller, file_path) == file_path.user = caller

extract_text_from_pdf(caller, file_path) ==
  IF caller = NoAuth
    THEN Raise("extract_text_from_pdf", caller, "UNAUTHENTICATED")
  ELSE IF file_path = MissingPath
    THEN Raise("extract_text_from_pdf", caller, "INVALID_ARGUMENT")
  ELSE IF ~OwnsPath(caller, file_path)
    THEN Raise("extract_text_from_pdf", caller, "PERMISSION_DENIED")
  ELSE IF Lookup(docs, caller, file_path.type) # {}
    THEN /\ last' = [op |-> "extract_text_from_pdf", code |-> "OK",
                     text |-> Get(ToDict(Lookup(docs, caller, file_path.type)),
                                  "text", "")]
         /\ UNCHANGED <<store, events, created, calls>>
  ELSE Raise("extract_text_from_pdf", caller, NotProcessedCode)

\* process_syllabus / process_transcript: the callable that runs the structured
\* extraction on the stored text and raises INTERNAL when it returned None
process_stored_document(op, caller, document_type, parses) ==
  IF caller = NoAuth
    THEN Raise(op, caller, "UNAUTHENTICATED")
  ELSE IF Lookup(docs, caller, document_type) = {}
    THEN Raise(op, caller, "NOT_FOUND")
  ELSE IF ~parses
    THEN Raise(op, caller, "INTERNAL")
  ELSE
    /\ created < MaxIds
    /\ process_internal(caller, document_type,
                        Get(ToDict(Lookup(docs, caller, document_type)),
                            "text", ""),
                        parses)
    /\ last' = [op |-> op, code |-> "OK"]
    /\ UNCHANGED <<uploads, docs, events, predictions, ml_predictions,
                   combined_predictions, training_data,
                   calls>>

process_syllabus(caller, parses) ==
  process_stored_document("process_syllabus", caller, "syllabus", parses)

process_transcript(caller, parses) ==
  process_stored_document("process_transcript", caller, "transcript", parses)

\* ----------------------------------------------------------------- main.py
\* the placeholder prediction simple_predict_grade stores
PlaceholderPrediction ==
  [predictedGrade |-> "B+", confidence |-> 78, factors |-> "placeholder"]

\* the text simple_predict_grade finds for one document type ("" if none).
\* For a record whose text is empty it calls extract_pdf_text, a name ocr.py
\* does not define: the import raises, the except logs it, the text stays "".
FoundText(user_id, doc_type) ==
  IF Lookup(docs, user_id, doc_type) # {}
    THEN Get(ToDict(Lookup(docs, user_id, doc_type)), "text", "")
    ELSE ""

simple_predict_grade(caller) ==
  IF caller = NoAuth
    THEN Raise("simple_predict_grade", caller, "UNAUTHENTICATED")
  ELSE
    LET found == {t \in {"syllabus", "transcript"} : FoundText(caller, t) # ""}
    IN IF found = {}
         THEN /\ last' = [op |-> "simple_predict_grade", code |-> "NO_TEXT"]
              /\ UNCHANGED <<store, events, created, calls>>
         ELSE /\ created < MaxIds
              /\ predictions' = [predictions EXCEPT ![caller] =
                    SetDoc(@, NewId(predictions),
                           [prediction |-> PlaceholderPrediction,
                            createdAt |-> NewId(predictions),
                            documents |-> found])]
              /\ created' = created + 1
              /\ last' = [op |-> "simple_predict_grade", code |-> "OK"]
              /\ UNCHANGED <<uploads, docs, structured, events, ml_predictions,
                             combined_predictions, training_data,
                             calls>>

\* ----------------------------------------------------------- openai_api.py
\* completions of the language model
JsonGrade90 == "{\"grade\": 90, \"reasoning\": \"steady\"}"
JsonGrade110 == "{\"grade\": 110, \"reasoning\": \"bonus\"}"
JsonNoReasoning == "{\"grade\": 90}"
JsonLetterGrade == "{\"grade\": \"A\", \"reasoning\": \"strong\"}"
JsonNoGrade == "{\"reasoning\": \"cannot tell\"}"
PlainText == "The student will likely earn a 90."
Completions == {JsonGrade90, JsonGrade110, JsonNoReasoning, JsonLetterGrade,
                JsonNoGrade, PlainText}
ApiError == "openai.error"

\* a JSON number (in tenths) and a JSON string
Num(n) == [num |-> n]
Str(s) == [str |-> s]

\* json.loads: the parsed object, or JSONDecodeError
json_loads(text) ==
  CASE text = JsonGrade90 ->
         [ok |-> TRUE, value |-> [grade |-> Num(900), reasoning |-> "steady"]]
    [] text = JsonGrade110 ->
         [ok |-> TRUE, value |-> [grade |-> Num(1100), reasoning |-> "bonus"]]
    [] text = JsonNoReasoning ->
         [ok |-> TRUE, value |-> [grade |-> Num(900)]]
    [] text = JsonLetterGrade ->
         [ok |-> TRUE, value |-> [grade |-> Str("A"), reasoning |-> "strong"]]
    [] text = JsonNoGrade ->
         [ok |-> TRUE, value |-> [reasoning |-> "cannot tell"]]
    [] OTHER -> [ok |-> FALSE]

\* the prediction predict_final_grade keeps for a completion
ParsedPrediction(prediction_text) ==
  IF json_loads(prediction_text).ok
    THEN json_loads(prediction_text).value
    ELSE [grade |-> Num(0), reasoning |-> prediction_text]

\* courseData as sent: absent, lacking a required field, or complete
CourseInputs == {Missing, "incomplete", "complete"}

predict_final_grade(caller, course_data, completion) ==
  IF caller = NoAuth
    THEN Raise("predict_final_grade", caller, "UNAUTHENTICATED")
  ELSE IF course_data = Missing
    THEN Raise("predict_final_grade", caller, "INVALID_ARGUMENT")
  ELSE IF course_data = "incomplete"
    THEN Raise("predict_final_grade", caller, "INVALID_ARGUMENT")
  ELSE IF completion = ApiError
    THEN Raise("predict_final_grade", caller, "INTERNAL")
  ELSE
    /\ Cardinality(Ids(predictions)) < MaxPredIds
    /\ LET prediction == ParsedPrediction(completion)
           id == NewId(predictions)
       IN /\ predictions' = [predictions EXCEPT ![caller] =
                SetDoc(@, id, [courseData |-> course_data,
                               prediction |-> prediction,
                               createdAt |-> id])]
          /\ last' = [op |-> "predict_final_grade", code |-> "OK",
                      predictionId |-> id, prediction |-> prediction]
    /\ UNCHANGED <<uploads, docs, structured, events, ml_predictions,
                   combined_predictions, training_data, created,
                   calls>>

\* completions of the assignment extraction
JsonAssignments == "{\"assignments\": []}"
AssignmentCompletions == {JsonAssignments, PlainText, ApiError}

\* assignments_data: the parsed completion, or the raw text beside an empty list
ParsedAssignments(assignments_text) ==
  IF assignments_text = JsonAssignments
    THEN [assignments |-> <<>>]
    ELSE [assignments |-> <<>>, raw_text |-> assignments_text]

\* the record is kept with the other structured extractions, kind "assignments"
extract_assignments(caller, completion) ==
  IF caller = NoAuth
    THEN Raise("extract_assignments", caller, "UNAUTHENTICATED")
  ELSE IF Lookup(docs, caller, "syllabus") = {}
    THEN Raise("extract_assignments", caller, "NOT_FOUND")
  ELSE IF completion = ApiError
    THEN Raise("extract_assignments", caller, "INTERNAL")
  ELSE
    /\ created < MaxIds
    /\ structured' = [structured EXCEPT ![caller] =
          SetDoc(@, NewId(structured),
                 [kind |-> "assignments",
                  data |-> ParsedAssignments(completion),
                  createdAt |-> NewId(structured)])]
    /\ created' = created + 1
    /\ last' = [op |-> "extract_assignments", code |-> "OK",
                assignments |-> ParsedAssignments(completion)]
    /\ UNCHANGED <<uploads, docs, events, predictions, ml_predictions,
                   combined_predictions, training_data,
                   calls>>

\* ----------------------------------------------------------- ml_predict.py
\* sum(previous_grades)
RECURSIVE Sum(_)
Sum(grades) == IF grades = <<>> THEN 0 ELSE Head(grades) + Sum(Tail(grades))

\* sample data that stops after the second student
ShortSampleData ==
  [students |-> <<
     [id |-> 1, previous_grades |-> <<850, 900, 920>>,
      transcript |-> [GPA |-> 36],
      syllabus_info |-> [assignment_weight |-> 3, exam_weight |-> 7],
      final_grade |-> 900],
     [id |-> 2, previous_grades |-> <<700, 750, 780>>,
      transcript |-> [GPA |-> 28],
      syllabus_info |-> [assignment_weight |-> 5, exam_weight |-> 5],
      final_grade |-> 800]>>]

\* the sample rows predict_with_linear_regression seeds the training set with
SampleData ==
  [students |-> <<
     [id |-> 1, previous_grades |-> <<850, 900, 920>>,
      transcript |-> [GPA |-> 36],
      syllabus_info |-> [assignment_weight |-> 3, exam_weight |-> 7],
      final_grade |-> 900],
     [id |-> 2, previous_grades |-> <<700, 750, 780>>,
      transcript |-> [GPA |-> 28],
      syllabus_info |-> [assignment_weight |-> 5, exam_weight |-> 5],
      final_grade |-> 800],
     [id |-> 3, previous_grades |-> <<880, 900, 850>>,
      transcript |-> [GPA |-> 35],
      syllabus_info |-> [assignment_weight |-> 4, exam_weight |-> 6],
      final_grade |-> 880] >>]

\* whether the feature vector of one student can be built: the three keys are
\* read (KeyError otherwise) and sum/len divides by len(previous_grades)
FeaturesOk(student) ==
  /\ "GPA" \in DOMAIN student.transcript
  /\ "assignment_weight" \in DOMAIN student.syllabus_info
  /\ "exam_weight" \in DOMAIN student.syllabus_info
  /\ Len(student.previous_grades) # 0

\* avg_previous_grade, in tenths (integer part)
AvgPreviousGrade(student) ==
  Sum(student.previous_grades) \div Len(student.previous_grades)

\* studentData as sent
CompleteStudent ==
  [previous_grades |-> <<800, 900>>, transcript |-> [GPA |-> 30],
   syllabus_info |-> [assignment_weight |-> 4, exam_weight |-> 6]]
NoGradesStudent ==
  [previous_grades |-> <<>>, transcript |-> [GPA |-> 30],
   syllabus_info |-> [assignment_weight |-> 4, exam_weight |-> 6]]
NoTranscriptStudent ==
  [previous_grades |-> <<800, 900>>,
   syllabus_info |-> [assignment_weight |-> 4, exam_weight |-> 6]]
NoGpaStudent ==
  [previous_grades |-> <<800, 900>>, transcript |-> [credits |-> 30],
   syllabus_info |-> [assignment_weight |-> 4, exam_weight |-> 6]]
NoStudent == [missing |-> TRUE]
StudentInputs ==
  {NoStudent, CompleteStudent, NoGradesStudent, NoTranscriptStudent,
   NoGpaStudent}

\* a training set kept from the first request instead of the stored one
StaleTrainingSet(stored) == SampleData

\* the training set of one request: the stored document, or the sample data
\* that is stored when there is none
TrainingSet(stored) == IF stored = Empty THEN SampleData ELSE stored

\* what LinearRegression.fit / predict return for the request, in tenths
MlGrades == {852, 1050}

\* the handler from the seeding (line 44) on, for the document `stored` that
\* training_data_ref.get() returned at line 42
fit_and_store(caller, student_data, predicted_grade, stored) ==
  LET rows == TrainingSet(stored).students
      fits == /\ \A i \in 1..Len(rows) : FeaturesOk(rows[i])
              /\ FeaturesOk(student_data)
      prediction == [grade |-> Num(predicted_grade),
                     model |-> "linear_regression"]
  IN /\ training_data' = IF stored = Empty THEN SampleData ELSE training_data
     /\ IF fits
          THEN /\ Cardinality(Ids(ml_predictions)) < MaxPredIds
               /\ ml_predictions' = [ml_predictions EXCEPT ![caller] =
                     SetDoc(@, NewId(ml_predictions),
                            [studentData |-> student_data,
                             prediction |-> prediction,
                             createdAt |-> NewId(ml_predictions)])]
               /\ last' = [op |-> "predict_with_linear_regression",
                           code |-> "OK",
                           predictionId |-> NewId(ml_predictions),
                           prediction |-> prediction,
                           \* the rows X and y were built from
                           fitted_on |-> rows]
          ELSE /\ last' = [op |-> "predict_with_linear_regression",
                           code |-> "INTERNAL"]
               /\ UNCHANGED ml_predictions
     /\ UNCHANGED <<uploads, docs, structured, events, predictions,
                    combined_predictions, created>>

\* one call, with no other request between its read and its writes
predict_with_linear_regression(caller, student_data, predicted_grade) ==
  IF caller = NoAuth
    THEN Raise("predict_with_linear_regression", caller, "UNAUTHENTICATED")
  ELSE IF student_data = NoStudent
    THEN Raise("predict_with_linear_regression", caller, "INVALID_ARGUMENT")
  ELSE IF {"previous_grades", "transcript", "syllabus_info"}
            \ DOMAIN student_data # {}
    THEN Raise("predict_with_linear_regression", caller, "INVALID_ARGUMENT")
  ELSE
    /\ fit_and_store(caller, student_data, predicted_grade, training_data)
    /\ UNCHANGED calls

\* the call up to training_data_ref.get() (line 42): other requests may run
\* before it goes on
predict_with_linear_regression_get(caller, student_data, predicted_grade) ==
  IF caller = NoAuth
    THEN Raise("predict_with_linear_regression", caller, "UNAUTHENTICATED")
  ELSE IF student_data = NoStudent
    THEN Raise("predict_with_linear_regression", caller, "INVALID_ARGUMENT")
  ELSE IF {"previous_grades", "transcript", "syllabus_info"}
            \ DOMAIN student_data # {}
    THEN Raise("predict_with_linear_regression", caller, "INVALID_ARGUMENT")
  ELSE
    /\ Cardinality(DOMAIN calls) < MaxCalls
    /\ Cardinality(Ids(ml_predictions))
         + Cardinality({n \in DOMAIN calls :
                          calls[n].op = "predict_with_linear_regression"})
         < MaxPredIds
    /\ calls' = SetDoc(calls, FreeSlot,
                       [op |-> "predict_with_linear_regression",
                        caller |-> caller, student_data |-> student_data,
                        predicted_grade |-> predicted_grade,
                        stored |-> training_data])
    /\ UNCHANGED <<store, events, created, last>>

\* the rest of that call, from line 44 on
predict_with_linear_regression_set(slot) ==
  /\ slot \in DOMAIN calls
  /\ calls[slot].op = "predict_with_linear_regression"
  /\ fit_and_store(calls[slot].caller, calls[slot].student_data,
                   calls[slot].predicted_grade, calls[slot].stored)
  /\ calls' = [n \in DOMAIN calls \ {slot} |-> calls[n]]

\* studentData as sent to add_training_data
CompleteExample == UpdateDoc(CompleteStudent, [final_grade |-> 850])
NoGradesExample == UpdateDoc(NoGradesStudent, [final_grade |-> 850])
NoGpaExample == UpdateDoc(NoGpaStudent, [final_grade |-> 850])
\* studentData that brings an id of its own
SuppliedId == 7
WithIdExample == UpdateDoc(CompleteExample, [id |-> SuppliedId])
ExampleInputs ==
  {NoStudent, CompleteStudent, CompleteExample, NoGradesExample, NoGpaExample,
   WithIdExample}

\* the number of rows, as an id generator that counts instead of looking
\* for the largest id
RowCount(rows) == Len(rows)

\* max_id: the largest id in the stored rows, 0 if none is positive
MaxId(rows) ==
  LET ids == {rows[i].id : i \in 1..Len(rows)} \cup {0}
  IN CHOOSE m \in ids : \A n \in ids : n =< m

\* the document add_training_data writes for what it read
WithExample(stored, student_data) ==
  IF stored # Empty
    THEN [students |->
            Append(stored.students,
                   UpdateDoc(student_data,
                             [id |-> MaxId(stored.students) + 1]))]
    \* {"id": 1, **student_data}: a key of student_data wins over "id": 1
    ELSE [students |-> <<UpdateDoc([id |-> 1], student_data)>>]

\* the rows add_training_data has added to a stored document
AddedRows(stored) ==
  IF stored = Empty THEN 0
  ELSE IF /\ Len(stored.students) >= Len(SampleData.students)
          /\ SubSeq(stored.students, 1, Len(SampleData.students))
               = SampleData.students
    THEN Len(stored.students) - Len(SampleData.students)
  ELSE Len(stored.students)

\* the handler from line 218 on, for the document `stored` that
\* training_data_ref.get() returned at line 216
store_example(student_data, stored) ==
  /\ training_data' = WithExample(stored, student_data)
  /\ last' = [op |-> "add_training_data", code |-> "OK"]
  /\ UNCHANGED <<uploads, docs, structured, events, predictions,
                 ml_predictions, combined_predictions, created>>

\* one call, with no other request between its read and its write
add_training_data(caller, student_data) ==
  IF caller = NoAuth
    THEN Raise("add_training_data", caller, "UNAUTHENTICATED")
  ELSE IF student_data = NoStudent
    THEN Raise("add_training_data", caller, "INVALID_ARGUMENT")
  ELSE IF {"previous_grades", "transcript", "syllabus_info", "final_grade"}
            \ DOMAIN student_data # {}
    THEN Raise("add_training_data", caller, "INVALID_ARGUMENT")
  ELSE
    /\ AddedRows(training_data) < MaxAdds
    /\ store_example(student_data, training_data)
    /\ UNCHANGED calls

\* the call up to training_data_ref.get() (line 216)
add_training_data_get(caller, student_data) ==
  IF caller = NoAuth
    THEN Raise("add_training_data", caller, "UNAUTHENTICATED")
  ELSE IF student_data = NoStudent
    THEN Raise("add_training_data", caller, "INVALID_ARGUMENT")
  ELSE IF {"previous_grades", "transcript", "syllabus_info", "final_grade"}
            \ DOMAIN student_data # {}
    THEN Raise("add_training_data", caller, "INVALID_ARGUMENT")
  ELSE
    /\ Cardinality(DOMAIN calls) < MaxCalls
    /\ AddedRows(training_data) < MaxAdds
    /\ calls' = SetDoc(calls, FreeSlot,
                       [op |-> "add_training_data", caller |-> caller,
                        student_data |-> student_data,
                        stored |-> training_data])
    /\ UNCHANGED <<store, events, created, last>>

\* the rest of that call: training_data_ref.set (line 232 or 245)
add_training_data_set(slot) ==
  /\ slot \in DOMAIN calls
  /\ calls[slot].op = "add_training_data"
  /\ store_example(calls[slot].student_data, calls[slot].stored)
  /\ calls' = [n \in DOMAIN calls \ {slot} |-> calls[n]]

\* ----------------------------------------------------- combined_predict.py
\* float(x) succeeds on a number and raises ValueError on a letter grade
FloatOk(x) == "num" \in DOMAIN x
Float(x) == x.num

\* abs(a - b)
Abs(n) == IF n < 0 THEN -n ELSE n

\* thresholds of the agreement heuristic, in tenths
HighBelow == 50
LowAbove == 150

\* Confidence with the lower threshold included in "high"
ConfidenceInclusive(grade_difference) ==
  IF grade_difference <= HighBelow THEN "high"
  ELSE IF grade_difference > LowAbove THEN "low"
  ELSE "medium"

Confidence(grade_difference) ==
  IF grade_difference < HighBelow THEN "high"
  ELSE IF grade_difference > LowAbove THEN "low"
  ELSE "medium"

\* (float(chatgpt_grade) + float(ml_grade)) / 2
CombinedGrade(chatgpt_grade, ml_grade) ==
  (Float(chatgpt_grade) + Float(ml_grade)) \div 2

\* lines 59-79 run without KeyError or ValueError
Combinable(chatgpt_prediction, ml_prediction) ==
  /\ "grade" \in DOMAIN chatgpt_prediction.prediction
  /\ "grade" \in DOMAIN ml_prediction.prediction
  /\ FloatOk(chatgpt_prediction.prediction.grade)
  /\ FloatOk(ml_prediction.prediction.grade)
  /\ "reasoning" \in DOMAIN chatgpt_prediction.prediction

CombinedPrediction(chatgpt_prediction, ml_prediction) ==
  LET chatgpt_grade == chatgpt_prediction.prediction.grade
      ml_grade == ml_prediction.prediction.grade
  IN [grade |-> CombinedGrade(chatgpt_grade, ml_grade),
      chatgpt_grade |-> chatgpt_grade,
      ml_grade |-> ml_grade,
      reasoning |-> chatgpt_prediction.prediction.reasoning,
      confidence |-> Confidence(Abs(Float(chatgpt_grade) - Float(ml_grade)))]

\* the code the handler's `except Exception` turns a NOT_FOUND raised inside
\* the try block into
LookupFailure == "INTERNAL"

get_combined_prediction(caller, chatgpt_prediction_id, ml_prediction_id) ==
  IF caller = NoAuth
    THEN Raise("get_combined_prediction", caller, "UNAUTHENTICATED")
  ELSE IF chatgpt_prediction_id = MissingId \/ ml_prediction_id = MissingId
    THEN Raise("get_combined_prediction", caller, "INVALID_ARGUMENT")
  ELSE IF Lookup(predictions, caller, chatgpt_prediction_id) = {}
    THEN Raise("get_combined_prediction", caller, LookupFailure)
  ELSE IF Lookup(ml_predictions, caller, ml_prediction_id) = {}
    THEN Raise("get_combined_prediction", caller, LookupFailure)
  ELSE
    LET chatgpt_prediction ==
          ToDict(Lookup(predictions, caller, chatgpt_prediction_id))
        ml_prediction ==
          ToDict(Lookup(ml_predictions, caller, ml_prediction_id))
    IN IF ~Combinable(chatgpt_prediction, ml_prediction)
         THEN Raise("get_combined_prediction", caller, "INTERNAL")
         ELSE
           /\ Cardinality(Ids(combined_predictions)) < MaxPredIds
           /\ LET combined_prediction ==
                    CombinedPrediction(chatgpt_prediction, ml_prediction)
                  id == NewId(combined_predictions)
              IN /\ combined_predictions' =
                      [combined_predictions EXCEPT ![caller] =
                         SetDoc(@, id,
                                [chatgptPrediction |-> chatgpt_prediction,
                                 mlPrediction |-> ml_prediction,
                                 combinedPrediction |-> combined_prediction,
                                 createdAt |-> id])]
                 /\ last' = [op |-> "get_combined_prediction", code |-> "OK",
                             predictionId |-> id,
                             prediction |-> combined_prediction]
           /\ UNCHANGED <<uploads, docs, structured, events, predictions,
                          ml_predictions, training_data, created,
                          calls>>

\* what a query that streams no document leaves in the result (None)
NoPrediction == [id |-> MissingId]

\* the first id of order_by("createdAt") in ascending direction
OldestFirst(coll) ==
  CHOOSE id \in DOMAIN coll :
    \A other \in DOMAIN coll : coll[id].createdAt <= coll[other].createdAt

\* the first id of order_by("createdAt", direction=DESCENDING)
NewestFirst(coll) ==
  CHOOSE id \in DOMAIN coll :
    \A other \in DOMAIN coll : coll[other].createdAt <= coll[id].createdAt

\* .limit(1).stream(): to_dict() of the first document with its id, or None
LatestOf(coll) ==
  IF DOMAIN coll = {}
    THEN NoPrediction
    ELSE UpdateDoc(coll[NewestFirst(coll)], [id |-> NewestFirst(coll)])

get_latest_predictions(caller) ==
  IF caller = NoAuth
    THEN Raise("get_latest_predictions", caller, "UNAUTHENTICATED")
  ELSE
    /\ last' = [op |-> "get_latest_predictions", code |-> "OK",
                chatgptPrediction |-> LatestOf(predictions[caller]),
                mlPrediction |-> LatestOf(ml_predictions[caller]),
                combinedPrediction |-> LatestOf(combined_predictions[caller])]
    /\ UNCHANGED <<store, events, created, calls>>

\* ------------------------------------------------------------ next-state
\* Every request a caller can send, each once: a request that is turned down
\* before a field is read is not repeated for every value of that field.
Upload ==
  \/ upload_and_process_document(NoAuth, "syllabus", "pdf")
  \/ \E c \in Users, t \in RequestTypes \ {"syllabus", "transcript"} :
       upload_and_process_document(c, t, "pdf")
  \/ \E c \in Users, t \in {"syllabus", "transcript"}, b \in Base64Inputs :
       upload_and_process_document(c, t, b)

GetStatus ==
  \/ get_document_status(NoAuth, 1)
  \/ \E c \in Users, id \in 0..MaxIds : get_document_status(c, id)

ProcessPdf ==
  \E p \in events, o \in PdfOutcomes, j \in LlmParses :
    process_uploaded_pdf(p, o, j)

ExtractText ==
  \/ extract_text_from_pdf(NoAuth, MissingPath)
  \/ \E c \in Users :
       \E p \in {MissingPath} \cup {FilePath(u, t, 0) :
                   u \in Users, t \in {"syllabus", "transcript"}} :
         extract_text_from_pdf(c, p)

SimplePredict == \E c \in Callers : simple_predict_grade(c)

PredictFinal ==
  \/ predict_final_grade(NoAuth, "complete", JsonGrade90)
  \/ \E c \in Users, d \in CourseInputs \ {"complete"} :
       predict_final_grade(c, d, JsonGrade90)
  \/ \E c \in Users, r \in Completions \cup {ApiError} :
       predict_final_grade(c, "complete", r)

PredictMl ==
  \/ predict_with_linear_regression(NoAuth, CompleteStudent, 852)
  \/ \E c \in Users, d \in StudentInputs \ {CompleteStudent} :
       predict_with_linear_regression(c, d, 852)
  \/ \E c \in Users, g \in MlGrades :
       predict_with_linear_regression(c, CompleteStudent, g)

Combine ==
  \/ get_combined_prediction(NoAuth, 1, 1)
  \/ \E c \in Users, i \in 0..MaxPredIds, j \in 0..MaxPredIds :
       get_combined_prediction(c, i, j)

ProcessSyllabus ==
  \/ process_syllabus(NoAuth, TRUE)
  \/ \E c \in Users, j \in LlmParses : process_syllabus(c, j)

ProcessTranscript ==
  \/ process_transcript(NoAuth, TRUE)
  \/ \E c \in Users, j \in LlmParses : process_transcript(c, j)

ExtractAssignments ==
  \/ extract_assignments(NoAuth, PlainText)
  \/ \E c \in Users, r \in AssignmentCompletions : extract_assignments(c, r)

\* the callables that run a structured extraction on a stored text, with the
\* upload and the extraction that store it
NextStruct ==
  Upload \/ ProcessPdf \/ ProcessSyllabus \/ ProcessTranscript
    \/ ExtractAssignments

SpecStruct == Init /\ [][NextStruct]_vars

NextDoc == Upload \/ GetStatus \/ ProcessPdf \/ ExtractText \/ SimplePredict

SpecDoc == Init /\ [][NextDoc]_vars

NextPred == PredictFinal \/ PredictMl \/ Combine

SpecPred == Init /\ [][NextPred]_vars

AddTraining ==
  \/ add_training_data(NoAuth, CompleteExample)
  \/ \E c \in Users, d \in ExampleInputs : add_training_data(c, d)

\* the regression handlers, one call at a time
NextTrain == PredictMl \/ AddTraining

SpecTrain == Init /\ [][NextTrain]_vars

AddGet ==
  \/ add_training_data_get(NoAuth, CompleteExample)
  \/ \E c \in Users, d \in {NoStudent, CompleteExample, WithIdExample} :
       add_training_data_get(c, d)

AddSet == \E n \in 1..MaxCalls : add_training_data_set(n)

PredictGet ==
  \/ predict_with_linear_regression_get(NoAuth, CompleteStudent, 852)
  \/ \E c \in Users, d \in {NoStudent, CompleteStudent} :
       predict_with_linear_regression_get(c, d, 852)

PredictSet == \E n \in 1..MaxCalls : predict_with_linear_regression_set(n)

\* the regression handlers as the platform runs them: requests overlap, each
\* reads the training set and writes it back later, with no transaction
NextRace == AddGet \/ AddSet \/ PredictGet \/ PredictSet

SpecRace == Init /\ [][NextRace]_vars

\* every callable, sent without credentials
Anonymous ==
  \/ upload_and_process_document(NoAuth, "syllabus", "pdf")
  \/ get_document_status(NoAuth, 1)
  \/ extract_text_from_pdf(NoAuth, FilePath("u1", "syllabus", 0))
  \/ simple_predict_grade(NoAuth)
  \/ predict_final_grade(NoAuth, "complete", JsonGrade90)
  \/ predict_with_linear_regression(NoAuth, CompleteStudent, 852)
  \/ add_training_data(NoAuth, CompleteExample)
  \/ get_combined_prediction(NoAuth, 1, 1)
  \/ get_latest_predictions(NoAuth)

\* one signed-in user taking a syllabus through the pipeline: every handler
\* that writes, with a well-formed request, and the latest-predictions query
OneUser ==
  \/ upload_and_process_document("u1", "syllabus", "pdf")
  \/ \E p \in events : process_uploaded_pdf(p, "text", FALSE)
  \/ simple_predict_grade("u1")
  \/ predict_final_grade("u1", "complete", JsonGrade90)
  \/ predict_with_linear_regression("u1", CompleteStudent, 852)
  \/ add_training_data("u1", CompleteExample)
  \/ \E i \in 1..MaxIds, j \in 1..MaxPredIds :
       get_combined_prediction("u1", i, j)
  \/ get_latest_predictions("u1")

NextPipeline == Anonymous \/ OneUser

SpecPipeline == Init /\ [][NextPipeline]_vars

\* the life of one user's documents: well-formed uploads, the storage trigger
\* with every outcome of the PDF library, and the two callables that read
\* what the trigger stored
NextLifecycle ==
  \/ \E t \in {"syllabus", "transcript"} :
       upload_and_process_document("u1", t, "pdf")
  \/ \E p \in events, o \in PdfOutcomes : process_uploaded_pdf(p, o, FALSE)
  \/ \E id \in 1..MaxIds : get_document_status("u1", id)
  \/ \E t \in {"syllabus", "transcript"} :
       extract_text_from_pdf("u1", FilePath("u1", t, 0))

SpecLifecycle == Init /\ [][NextLifecycle]_vars

\* two signed-in users side by side, each sending well-formed requests that
\* name its own records or the other user's
NextOwners ==
  \/ \E c \in Users : upload_and_process_document(c, "syllabus", "pdf")
  \/ \E p \in events : process_uploaded_pdf(p, "text", FALSE)
  \/ \E c \in Users, u \in Users :
       extract_text_from_pdf(c, FilePath(u, "syllabus", 0))
  \/ \E c \in Users : predict_final_grade(c, "complete", JsonGrade90)
  \/ \E c \in Users :
       predict_with_linear_regression(c, CompleteStudent, 852)
  \/ \E c \in Users, i \in 1..MaxPredIds, j \in 1..MaxPredIds :
       get_combined_prediction(c, i, j)

SpecOwners == Init /\ [][NextOwners]_vars

\* add_training_data requests of one user that overlap, on a training set
\* they create or on the one a regression prediction has seeded
NextAddRace ==
  \/ predict_with_linear_regression("u1", CompleteStudent, 852)
  \/ \E d \in {CompleteExample, WithIdExample} :
       add_training_data_get("u1", d)
  \/ \E n \in 1..MaxCalls : add_training_data_set(n)

SpecAddRace == Init /\ [][NextAddRace]_vars

\* uploads of one user and the storage trigger as the platform runs it: one
\* invocation per stored file, invocations overlapping
NextExtractRace ==
  \/ \E t \in {"syllabus", "transcript"} :
       upload_and_process_document("u1", t, "pdf")
  \/ \E p \in events, o \in PdfOutcomes : process_uploaded_pdf_extract(p, o)
  \/ \E n \in 1..MaxCalls, j \in LlmParses : process_uploaded_pdf_set(n, j)

SpecExtractRace == Init /\ [][NextExtractRace]_vars

Next ==
  NextDoc \/ NextStruct \/ NextPred \/ NextTrain \/ NextRace \/ NextPipeline
    \/ NextLifecycle \/ NextOwners \/ NextAddRace \/ NextExtractRace

Spec == Init /\ [][Next]_vars

\* ================================================================ claims
\* a stored prediction record whose prediction.grade is a number
HasNumericGrade(rec) ==
  /\ "grade" \in DOMAIN rec.prediction
  /\ "num" \in DOMAIN rec.prediction.grade

\* the caller owns a prompt prediction i and a regression prediction j, both
\* with numeric grades
NumericPair(u, i, j) ==
  /\ i \in DOMAIN predictions[u]
  /\ j \in DOMAIN ml_predictions[u]
  /\ HasNumericGrade(predictions[u][i])
  /\ HasNumericGrade(ml_predictions[u][j])

\* grade g is the mean of the numeric grades of prompt prediction i and
\* regression prediction j of user u, neither clipped
IsMeanOf(g, u, i, j) ==
  2 * g = predictions[u][i].prediction.grade.num
            + ml_predictions[u][j].prediction.grade.num

\* the call returned and stored a combined prediction whose grade is the mean
AveragedAndStored(u, i, j) ==
  /\ last'.op = "get_combined_prediction"
  /\ last'.code = "OK"
  /\ IsMeanOf(last'.prediction.grade, u, i, j)
  /\ \E id \in DOMAIN combined_predictions'[u]
                  \ DOMAIN combined_predictions[u] :
       combined_predictions'[u][id].combinedPrediction = last'.prediction

\* C1: for every pair of existing predictions of the caller with numeric
\* grades p and r, get_combined_prediction returns and stores a combined
\* prediction whose grade is (p + r) / 2, whatever the range of p and r.
C1_EveryNumericPairIsAveraged ==
  [][\A u \in Users, i \in 1..MaxPredIds, j \in 1..MaxPredIds :
       (NumericPair(u, i, j) /\ get_combined_prediction(u, i, j))
         => AveragedAndStored(u, i, j)]_vars

\* C1, where it holds: a pair whose prompt prediction also carries the
\* reasoning the combiner copies is averaged as is and stored.
C1_PairWithReasoningIsAveraged ==
  [][\A u \in Users, i \in 1..MaxPredIds, j \in 1..MaxPredIds :
       (/\ NumericPair(u, i, j)
        /\ "reasoning" \in DOMAIN predictions[u][i].prediction
        /\ get_combined_prediction(u, i, j))
         => AveragedAndStored(u, i, j)]_vars

\* a combined prediction whose confidence follows the thresholds 5 and 15
ConfidenceAsSpecified(c) ==
  LET diff == IF c.chatgpt_grade.num >= c.ml_grade.num
                THEN c.chatgpt_grade.num - c.ml_grade.num
                ELSE c.ml_grade.num - c.chatgpt_grade.num
  IN /\ c.confidence \in {"low", "medium", "high"}
     /\ (c.confidence = "high") <=> (diff < 50)
     /\ (c.confidence = "low") <=> (diff > 150)
     /\ (c.confidence = "medium") <=> (50 =< diff /\ diff =< 150)

\* C2: every combined prediction returned or stored has confidence high
\* exactly when |p - r| < 5, low exactly when |p - r| > 15 and medium
\* otherwise (5 and 15 included); no other confidence value occurs.
C2_ConfidenceFollowsThresholds ==
  /\ \A u \in Users : \A id \in DOMAIN combined_predictions[u] :
       ConfidenceAsSpecified(combined_predictions[u][id].combinedPrediction)
  /\ (last.op = "get_combined_prediction" /\ last.code = "OK")
       => ConfidenceAsSpecified(last.prediction)

\* C2 witness: grades 110 and 105 differ by exactly 5 and were combined.
C2_BoundaryPairCombined ==
  \E u \in Users : \E id \in DOMAIN combined_predictions[u] :
    LET c == combined_predictions[u][id].combinedPrediction
    IN c.chatgpt_grade.num - c.ml_grade.num = 50 /\ c.confidence = "medium"

\* C3: get_combined_prediction by an authenticated caller with an id that
\* names no prediction of that caller (either of the two) fails NOT_FOUND.
C3_UnknownIdIsNotFound ==
  [][\A u \in Users, i \in 1..MaxPredIds, j \in 1..MaxPredIds :
       (/\ i \notin DOMAIN predictions[u] \/ j \notin DOMAIN ml_predictions[u]
        /\ get_combined_prediction(u, i, j))
         => last'.code = "NOT_FOUND"]_vars

\* every combined record of a user embeds a prompt prediction and a
\* regression prediction that exist in that user's collections
DerivedFromOwnPredictions ==
  \A u \in Users : \A id \in DOMAIN combined_predictions[u] :
    LET rec == combined_predictions[u][id]
    IN /\ \E i \in DOMAIN predictions[u] :
            predictions[u][i] = rec.chatgptPrediction
       /\ \E j \in DOMAIN ml_predictions[u] :
            ml_predictions[u][j] = rec.mlPrediction

\* the combined collections change only by a successful
\* get_combined_prediction, which adds one record and touches no other
OnlyCombineWrites ==
  combined_predictions' # combined_predictions =>
    /\ last'.op = "get_combined_prediction"
    /\ last'.code = "OK"
    /\ \E u \in Users :
         /\ DOMAIN combined_predictions'[u]
              = DOMAIN combined_predictions[u] \cup {last'.predictionId}
         /\ last'.predictionId \notin DOMAIN combined_predictions[u]
         /\ \A v \in Users : \A id \in DOMAIN combined_predictions[v] :
              combined_predictions'[v][id] = combined_predictions[v][id]
         /\ \A v \in Users \ {u} :
              DOMAIN combined_predictions'[v] = DOMAIN combined_predictions[v]

\* C4: a combined prediction is never created standalone: every stored one
\* was built from a prompt and a regression prediction found in the same
\* owner's store, and a get_combined_prediction call that fails writes none.
C4_NeverStandalone ==
  [][DerivedFromOwnPredictions' /\ OnlyCombineWrites]_vars

\* C4 witness: a combined prediction has been stored.
C4_CombinedStored ==
  \E u \in Users : DOMAIN combined_predictions[u] # {}

\* C5: every record under predictions and ml_predictions carries a numeric
\* prediction.grade.
C5_EveryPredictionHasNumericGrade ==
  \A u \in Users :
    /\ \A id \in DOMAIN predictions[u] : HasNumericGrade(predictions[u][id])
    /\ \A id \in DOMAIN ml_predictions[u] :
         HasNumericGrade(ml_predictions[u][id])

\* C6: every record under documents/{type} has its text field exactly when
\* its status is 'processed'.
C6_TextIffProcessed ==
  \A u \in Users : \A t \in DOMAIN docs[u] :
    ("text" \in DOMAIN docs[u][t])
      <=> ("status" \in DOMAIN docs[u][t] /\ docs[u][t].status = "processed")

\* the upload records of one owner for one document type
UploadsOf(u, t) == {id \in DOMAIN uploads[u] : uploads[u][id].documentType = t}

\* exactly one record stands for (u, t), with status 'uploaded' and no text:
\* either the one upload record of that type, or the documents/{type} record
OneUploadedRecord(u, t) ==
  \/ /\ Cardinality(UploadsOf(u, t)) = 1
     /\ \A id \in UploadsOf(u, t) :
          /\ uploads[u][id].status = "uploaded"
          /\ "text" \notin DOMAIN uploads[u][id]
     /\ t \notin DOMAIN docs[u]
  \/ /\ t \in DOMAIN docs[u]
     /\ "status" \in DOMAIN docs[u][t]
     /\ docs[u][t].status = "uploaded"
     /\ "text" \notin DOMAIN docs[u][t]

\* C7: upload is idempotent per (owner, type): after a second upload by the
\* same owner for the same type exactly one document record exists for that
\* (owner, type), with status 'uploaded' and no text.
C7_SecondUploadReplaces ==
  [][\A u \in Users, t \in {"syllabus", "transcript"} :
       (/\ UploadsOf(u, t) # {}
        /\ upload_and_process_document(u, t, "pdf"))
         => OneUploadedRecord(u, t)']_vars

\* C8: extract_text_from_pdf for an (owner, type) without a document record
\* fails with NOT_FOUND and leaves every collection as it was.
C8_ExtractWithoutRecordIsNotFound ==
  [][\A u \in Users, t \in {"syllabus", "transcript"} :
       (/\ t \notin DOMAIN docs[u]
        /\ extract_text_from_pdf(u, FilePath(u, t, 0)))
         => /\ last'.op = "extract_text_from_pdf"
            /\ last'.code = "NOT_FOUND"
            /\ UNCHANGED store]_vars

\* C8 witness: the call was turned down with NOT_FOUND while the caller had
\* no record of some type.
C8_ExtractTurnedDown ==
  /\ last.op = "extract_text_from_pdf"
  /\ last.code = "NOT_FOUND"
  /\ \E u \in Users : DOMAIN docs[u] # {"syllabus", "transcript"}

\* C9: when the extraction of a document that already holds text fails, the
\* record's status becomes 'failed' and the stored text stays as it was.
C9_FailedReextractionMarksFailed ==
  [][\A p \in events, o \in PdfOutcomes \ Texts, j \in LlmParses :
       (/\ p.type \in DOMAIN docs[p.user]
        /\ "text" \in DOMAIN docs[p.user][p.type]
        /\ process_uploaded_pdf(p, o, j))
         => /\ p.type \in DOMAIN docs'[p.user]
            /\ "text" \in DOMAIN docs'[p.user][p.type]
            /\ docs'[p.user][p.type].text = docs[p.user][p.type].text
            /\ \/ /\ "status" \in DOMAIN docs'[p.user][p.type]
                  /\ docs'[p.user][p.type].status = "failed"
               \/ \E id \in DOMAIN uploads'[p.user] :
                    /\ uploads'[p.user][id].filePath = p
                    /\ uploads'[p.user][id].status = "failed"]_vars

\* the status changes the lifecycle allows
LegalTransitions ==
  {<<"uploaded", "extracting">>, <<"extracting", "processed">>,
   <<"extracting", "failed">>, <<"failed", "extracting">>,
   <<"processed", "extracting">>}

\* every status change of a step is in `legal`, a new record starts as
\* 'uploaded', no record disappears, and every status is one of the four
StatusChangesWithin(legal) ==
  \A u \in Users :
    /\ DOMAIN uploads[u] \subseteq DOMAIN uploads'[u]
    /\ \A id \in DOMAIN uploads'[u] :
         /\ uploads'[u][id].status
              \in {"uploaded", "extracting", "processed", "failed"}
         /\ id \notin DOMAIN uploads[u] => uploads'[u][id].status = "uploaded"
         /\ (/\ id \in DOMAIN uploads[u]
             /\ uploads'[u][id].status # uploads[u][id].status)
              => <<uploads[u][id].status, uploads'[u][id].status>> \in legal

\* C10: every change of a document's status is one of (create) -> uploaded,
\* uploaded -> extracting, extracting -> processed, extracting -> failed,
\* failed -> extracting, processed -> extracting, and the status is always
\* one of uploaded, extracting, processed, failed.
C10_OnlyLegalTransitions ==
  [][StatusChangesWithin(LegalTransitions)]_vars

\* C10 as the code keeps it: the extracting step is never stored, so the
\* change uploaded -> processed is made in one step; every status change is
\* one of the transitions above or uploaded -> processed.
C10_LegalOrDirectlyProcessed ==
  [][StatusChangesWithin(LegalTransitions
                           \cup {<<"uploaded", "processed">>})]_vars

\* C10 witness: an upload record went from 'uploaded' to 'processed'.
C10_UploadProcessed ==
  \E u \in Users : \E id \in DOMAIN uploads[u] :
    uploads[u][id].status = "processed"

\* C11: no status is terminal: an extraction may follow in any status, and
\* once an extraction of an (owner, type) succeeds - also after a failed
\* one - the record is 'processed' and holds the new text.
C11_SuccessfulExtractionMakesProcessed ==
  [][\A p \in events, o \in Texts, j \in LlmParses :
       process_uploaded_pdf(p, o, j)
         => /\ p.type \in DOMAIN docs'[p.user]
            /\ docs'[p.user][p.type].text = o
            /\ \/ /\ "status" \in DOMAIN docs'[p.user][p.type]
                  /\ docs'[p.user][p.type].status = "processed"
               \/ \E id \in DOMAIN uploads'[p.user] :
                    /\ uploads'[p.user][id].filePath = p
                    /\ uploads'[p.user][id].status = "processed"]_vars

\* C12: extraction never succeeds with empty text: no document record holds
\* an empty text and no structured extraction was run on an empty text.
C12_NoEmptyTextStored ==
  \A u \in Users :
    /\ \A t \in DOMAIN docs[u] : docs[u][t].text # ""
    /\ \A id \in DOMAIN structured[u] :
         structured[u][id].kind \in {"syllabus", "transcript"}
           => structured[u][id].data.source # ""

\* the fallback prediction of a completion that is not JSON was returned and
\* stored: grade 0 and the raw completion as reasoning
FallbackReturnedAndStored(u) ==
  /\ last'.op = "predict_final_grade"
  /\ last'.code = "OK"
  /\ last'.prediction.grade = Num(0)
  /\ last'.prediction.reasoning = PlainText
  /\ predictions'[u][last'.predictionId].prediction = last'.prediction

\* C13: when the completion is not valid JSON the prediction returned and
\* stored has grade 0, the raw completion as reasoning, and an 'unparsed'
\* flag that tells it from a parsed prediction with grade 0.
C13_FallbackIsFlaggedUnparsed ==
  [][\A u \in Users :
       predict_final_grade(u, "complete", PlainText)
         => /\ FallbackReturnedAndStored(u)
            /\ "unparsed" \in DOMAIN last'.prediction]_vars

\* C13, where it holds: the fallback has grade 0 and the raw completion as
\* reasoning, and is what the record keeps.
C13_FallbackGradeAndReasoning ==
  [][\A u \in Users :
       predict_final_grade(u, "complete", PlainText)
         => FallbackReturnedAndStored(u)]_vars

\* C14: a completion that is not JSON never makes a structured extraction
\* or a prompt prediction fail: process_syllabus, process_transcript,
\* extract_assignments and predict_final_grade complete with a fallback.
C14_MalformedCompletionNeverFails ==
  [][\A u \in Users :
       /\ ("syllabus" \in DOMAIN docs[u] /\ process_syllabus(u, FALSE))
            => last'.code = "OK"
       /\ ("transcript" \in DOMAIN docs[u] /\ process_transcript(u, FALSE))
            => last'.code = "OK"
       /\ ("syllabus" \in DOMAIN docs[u] /\ extract_assignments(u, PlainText))
            => last'.code = "OK"
       /\ predict_final_grade(u, "complete", PlainText)
            => last'.code = "OK"]_vars

\* C14, where it holds: extract_assignments completes with the fallback
\* value on a completion that is not JSON.
C14_AssignmentsFallBack ==
  [][\A u \in Users :
       ("syllabus" \in DOMAIN docs[u] /\ extract_assignments(u, PlainText))
         => /\ last'.code = "OK"
            /\ last'.assignments = [assignments |-> <<>>,
                                    raw_text |-> PlainText]]_vars

\* C15: predict_with_linear_regression on student data whose previous_grades
\* list is empty fails with a validation error (INVALID_ARGUMENT), never
\* with INTERNAL.
C15_EmptyGradesIsValidationError ==
  [][\A u \in Users, g \in MlGrades :
       predict_with_linear_regression(u, NoGradesStudent, g)
         => /\ last'.op = "predict_with_linear_regression"
            /\ last'.code = "INVALID_ARGUMENT"]_vars

\* C16: predict_with_linear_regression and add_training_data on student data
\* that lacks the GPA (the transcript object being present) fail with a
\* validation error before any read or write: nothing in the store changes.
C16_MissingFeatureIsValidationError ==
  [][\A u \in Users :
       /\ \A g \in MlGrades :
            predict_with_linear_regression(u, NoGpaStudent, g)
              => (last'.code = "INVALID_ARGUMENT" /\ UNCHANGED store)
       /\ add_training_data(u, NoGpaExample)
            => (last'.code = "INVALID_ARGUMENT" /\ UNCHANGED store)]_vars

\* C17: every stored training example has at least one previous grade.
C17_StoredExamplesHaveGrades ==
  training_data # Empty =>
    \A i \in 1..Len(training_data.students) :
      Len(training_data.students[i].previous_grades) >= 1

\* the ids of the stored training rows are pairwise distinct
IdsDistinct(stored) ==
  \A i, j \in 1..Len(stored.students) :
    stored.students[i].id = stored.students[j].id => i = j

\* the largest id of the stored rows, written without the handler's loop
LargestId(stored) ==
  CHOOSE m \in {stored.students[i].id : i \in 1..Len(stored.students)} :
    \A i \in 1..Len(stored.students) : stored.students[i].id =< m

\* C18: after an add_training_data call the ids of the training set are
\* pairwise distinct and the added example has the id (largest id) + 1, or 1
\* when there was no training set, whatever id the caller sent.
C18_AddedExampleGetsNextId ==
  [][\A u \in Users, d \in ExampleInputs :
       (add_training_data(u, d) /\ last'.code = "OK")
         => LET rows == training_data'.students
            IN /\ IdsDistinct(training_data')
               /\ rows[Len(rows)].id
                    = IF training_data = Empty THEN 1
                      ELSE LargestId(training_data) + 1]_vars

\* C18, where it holds: the ids of the training set are pairwise distinct.
C18_IdsStayDistinct ==
  training_data # Empty => IdsDistinct(training_data)

\* C20: every predict_with_linear_regression reads the training set when it
\* is called and fits on exactly that set (the sample data when there is
\* none), so an example added before the call is part of it.
C20_FittedOnStoredSet ==
  [][\A u \in Users, d \in StudentInputs, g \in MlGrades :
       (predict_with_linear_regression(u, d, g) /\ last'.code = "OK")
         => last'.fitted_on
              = IF training_data = Empty THEN SampleData.students
                ELSE training_data.students]_vars

\* C20 witness: a prediction was fitted on a set that holds an example
\* added by add_training_data.
C20_FittedOnAddedExample ==
  /\ last.op = "predict_with_linear_regression"
  /\ last.code = "OK"
  /\ last.fitted_on = Append(SampleData.students,
                             UpdateDoc(CompleteExample, [id |-> 4]))

\* every stored training example is still stored after the step, and the
\* number of stored examples has not gone down
AppendOnly ==
  training_data # Empty =>
    /\ training_data' # Empty
    /\ Len(training_data'.students) >= Len(training_data.students)
    /\ \A i \in 1..Len(training_data.students) :
         \E j \in 1..Len(training_data'.students) :
           training_data'.students[j] = training_data.students[i]

\* C19: the training set is append-only under every interleaving of
\* add_training_data and predict_with_linear_regression calls: an example
\* that was stored stays stored, and the number of examples never decreases.
C19_TrainingSetIsAppendOnly ==
  [][AppendOnly]_vars

\* every record a per-user collection holds before the step is there,
\* unchanged, after it
Kept(before, after) ==
  \A u \in Users : \A id \in DOMAIN before[u] :
    id \in DOMAIN after[u] /\ after[u][id] = before[u][id]

\* a step of handler op that succeeded added exactly one record to the
\* collection, under an id that was not in use, with a creation timestamp
\* later than that of every record of the collection
WroteFreshRecord(op, before, after) ==
  (last'.op = op /\ last'.code = "OK") =>
    \E u \in Users : \E id \in DOMAIN after[u] \ DOMAIN before[u] :
      /\ DOMAIN after[u] = DOMAIN before[u] \cup {id}
      /\ \A v \in Users \ {u} : DOMAIN after[v] = DOMAIN before[v]
      /\ \A v \in Users : \A old \in DOMAIN before[v] :
           before[v][old].createdAt < after[u][id].createdAt

\* C21: no step of the pipeline (upload, extraction, prediction, combination,
\* latest-predictions query, training example) changes or deletes a record
\* stored under predictions, ml_predictions or combined_predictions, and every
\* successful prediction-producing call adds one fresh record with its own
\* creation timestamp.
C21_StoredPredictionsImmutable ==
  [][/\ Kept(predictions, predictions')
     /\ Kept(ml_predictions, ml_predictions')
     /\ Kept(combined_predictions, combined_predictions')
     /\ WroteFreshRecord("predict_final_grade", predictions, predictions')
     /\ WroteFreshRecord("simple_predict_grade", predictions, predictions')
     /\ WroteFreshRecord("predict_with_linear_regression",
                         ml_predictions, ml_predictions')
     /\ WroteFreshRecord("get_combined_prediction",
                         combined_predictions, combined_predictions')]_vars

\* the first prompt prediction is still stored after a second one, a
\* regression prediction, a combination, an upload with its extraction, an
\* added training example and a latest-predictions query
C21_FirstPredictionSurvives ==
  /\ DOMAIN predictions["u1"] = {1, 2}
  /\ DOMAIN ml_predictions["u1"] = {1}
  /\ DOMAIN combined_predictions["u1"] = {1}
  /\ "syllabus" \in DOMAIN docs["u1"]
  /\ AddedRows(training_data) > 0
  /\ last.op = "get_latest_predictions"

\* the upload records of user u that are 'processed' before the step are
\* 'processed' after it
StaysProcessed(u) ==
  \A id \in DOMAIN uploads[u] :
    uploads[u][id].status = "processed" =>
      /\ id \in DOMAIN uploads'[u]
      /\ uploads'[u][id].status = "processed"

\* C22: extracting a document again, with the PDF library returning the text
\* that is already stored for that owner and type, leaves the stored text as it
\* was and leaves every processed upload record processed; the callable that
\* returns the text of a processed document changes nothing at all.
C22_ReextractionKeepsText ==
  [][/\ \A p \in events, o \in Texts, j \in LlmParses :
          (/\ p.type \in DOMAIN docs[p.user]
           /\ docs[p.user][p.type].text = o
           /\ process_uploaded_pdf(p, o, j))
            => /\ docs'[p.user][p.type].text = docs[p.user][p.type].text
               /\ StaysProcessed(p.user)
     /\ \A u \in Users, t \in {"syllabus", "transcript"} :
          (/\ t \in DOMAIN docs[u]
           /\ extract_text_from_pdf(u, FilePath(u, t, 0)))
            => /\ UNCHANGED store
               /\ last'.code = "OK"
               /\ last'.text = docs[u][t].text]_vars

\* the first syllabus was extracted and found processed, a second extraction
\* of the syllabus has stored its text, and the text is read back
C22_ProcessedAndExtractedAgain ==
  /\ 1 \in DOMAIN uploads["u1"]
  /\ uploads["u1"][1].status = "processed"
  /\ uploads["u1"][1].documentType = "syllabus"
  /\ "syllabus" \in DOMAIN docs["u1"]
  /\ docs["u1"]["syllabus"].filePath.name = 2
  /\ docs["u1"]["syllabus"].text = "text"
  /\ last = [op |-> "extract_text_from_pdf", code |-> "OK", text |-> "text"]

\* the step ended with UNAUTHENTICATED and changed no collection, no pending
\* storage event and no record of the training set
TurnedDownUntouched ==
  /\ last'.code = "UNAUTHENTICATED"
  /\ UNCHANGED <<store, events>>

\* C23: every callable (upload, document status, text extraction, the two
\* predictions, adding a training example, combination, latest predictions),
\* called without an authenticated identity and with any arguments, ends with
\* UNAUTHENTICATED and leaves the whole store, training set included, as it was.
C23_AnonymousCallsChangeNothing ==
  [][/\ last'.op = "upload_and_process_document" =>
          \A t \in RequestTypes, b \in Base64Inputs :
            upload_and_process_document(NoAuth, t, b) => TurnedDownUntouched
     /\ last'.op = "get_document_status" =>
          \A id \in 0..MaxIds :
            get_document_status(NoAuth, id) => TurnedDownUntouched
     /\ last'.op = "extract_text_from_pdf" =>
          \A p \in {MissingPath} \cup {FilePath(u, t, 0) :
                      u \in Users, t \in {"syllabus", "transcript"}} :
            extract_text_from_pdf(NoAuth, p) => TurnedDownUntouched
     /\ last'.op = "predict_final_grade" =>
          \A d \in CourseInputs, r \in Completions \cup {ApiError} :
            predict_final_grade(NoAuth, d, r) => TurnedDownUntouched
     /\ last'.op = "predict_with_linear_regression" =>
          \A d \in StudentInputs, g \in MlGrades :
            predict_with_linear_regression(NoAuth, d, g)
              => TurnedDownUntouched
     /\ last'.op = "add_training_data" =>
          \A d \in ExampleInputs :
            add_training_data(NoAuth, d) => TurnedDownUntouched
     /\ last'.op = "get_combined_prediction" =>
          \A i \in 0..MaxPredIds, j \in 0..MaxPredIds :
            get_combined_prediction(NoAuth, i, j) => TurnedDownUntouched
     /\ get_latest_predictions(NoAuth) => TurnedDownUntouched
     /\ simple_predict_grade(NoAuth) => TurnedDownUntouched
     /\ last'.code = "UNAUTHENTICATED" => UNCHANGED <<store, events>>]_vars

\* an anonymous add_training_data was turned down while a training set, a
\* document and predictions were stored
C23_AnonymousAddTurnedDown ==
  /\ last = [op |-> "add_training_data", code |-> "UNAUTHENTICATED"]
  /\ training_data # Empty
  /\ DOMAIN docs["u1"] # {}
  /\ DOMAIN predictions["u1"] # {}
  /\ DOMAIN combined_predictions["u1"] # {}

\* the per-user records of every user but a are the same after the step
OthersUntouched(a) ==
  \A b \in Users \ {a} :
    /\ uploads'[b] = uploads[b]
    /\ docs'[b] = docs[b]
    /\ structured'[b] = structured[b]
    /\ predictions'[b] = predictions[b]
    /\ ml_predictions'[b] = ml_predictions[b]
    /\ combined_predictions'[b] = combined_predictions[b]

\* C24: a call by user a leaves every record under another user untouched and
\* answers from a's records alone: an upload is filed under a, the storage
\* trigger writes only under the owner in the file's path, extract_text_from_pdf
\* on another user's path ends with PERMISSION_DENIED and otherwise returns
\* a's text, and get_combined_prediction succeeds only on ids in a's
\* collections and stores a's two records.
C24_OwnerIsolation ==
  [][\A a \in Users :
       /\ last'.op = "upload_and_process_document" =>
            (upload_and_process_document(a, "syllabus", "pdf")
               => /\ OthersUntouched(a)
                  /\ \A p \in events' \ events : p.user = a)
       /\ last'.op = "process_uploaded_pdf" =>
            \A p \in events :
              (p.user = a /\ process_uploaded_pdf(p, "text", FALSE))
                => OthersUntouched(a)
       /\ last'.op = "extract_text_from_pdf" =>
            \A u \in Users :
              extract_text_from_pdf(a, FilePath(u, "syllabus", 0))
                => /\ UNCHANGED store
                   /\ u # a => last'.code = "PERMISSION_DENIED"
                   /\ last'.code = "OK" =>
                        /\ "syllabus" \in DOMAIN docs[a]
                        /\ last'.text = docs[a]["syllabus"].text
       /\ last'.op = "predict_final_grade" =>
            (predict_final_grade(a, "complete", JsonGrade90)
               => OthersUntouched(a))
       /\ last'.op = "predict_with_linear_regression" =>
            (predict_with_linear_regression(a, CompleteStudent, 852)
               => OthersUntouched(a))
       /\ last'.op = "get_combined_prediction" =>
            \A i \in 1..MaxPredIds, j \in 1..MaxPredIds :
              get_combined_prediction(a, i, j)
                => /\ OthersUntouched(a)
                   /\ last'.code = "OK" =>
                        /\ i \in DOMAIN predictions[a]
                        /\ j \in DOMAIN ml_predictions[a]
                        /\ \E id \in DOMAIN combined_predictions'[a] :
                             /\ combined_predictions'[a][id].chatgptPrediction
                                  = predictions[a][i]
                             /\ combined_predictions'[a][id].mlPrediction
                                  = ml_predictions[a][j]]_vars

\* u1 asked for the text behind a path of u2 and was turned down, while u2 has
\* an extracted syllabus and a prompt prediction and u1 has neither
C24_OtherUsersPathDenied ==
  /\ last = [op |-> "extract_text_from_pdf", code |-> "PERMISSION_DENIED"]
  /\ "syllabus" \in DOMAIN docs["u2"]
  /\ DOMAIN docs["u1"] = {}
  /\ DOMAIN predictions["u2"] # {}
  /\ DOMAIN predictions["u1"] = {}
  /\ DOMAIN ml_predictions["u1"] # {}

\* the types the data model gives a document
DocumentTypes == {"syllabus", "transcript", "grades"}

\* C25: an upload of a decodable file is accepted for each of the types
\* syllabus, transcript and grades, and is turned down with INVALID_ARGUMENT
\* for every other type and for a missing one; a call that is turned down
\* uploads nothing and writes no record.
C25_ThreeTypesAccepted ==
  [][\A u \in Users, t \in RequestTypes :
       upload_and_process_document(u, t, "pdf")
         => IF t \in DocumentTypes
              THEN /\ last'.code = "OK"
                   /\ \E id \in DOMAIN uploads'[u] \ DOMAIN uploads[u] :
                        uploads'[u][id].documentType = t
              ELSE /\ last'.code = "INVALID_ARGUMENT"
                   /\ UNCHANGED <<store, events>>]_vars

\* what the handler does: the same with syllabus and transcript as the only
\* accepted types
C25_TwoTypesAccepted ==
  [][\A u \in Users, t \in RequestTypes :
       upload_and_process_document(u, t, "pdf")
         => IF t \in {"syllabus", "transcript"}
              THEN /\ last'.code = "OK"
                   /\ \E id \in DOMAIN uploads'[u] \ DOMAIN uploads[u] :
                        uploads'[u][id].documentType = t
              ELSE /\ last'.code = "INVALID_ARGUMENT"
                   /\ UNCHANGED <<store, events>>]_vars

\* res is what the query owes the caller for one kind of prediction: nothing
\* when the caller's collection coll is empty, otherwise one of the caller's
\* records, with its id, that no other record of coll is newer than
IsLatestOf(res, coll) ==
  IF DOMAIN coll = {}
    THEN res = NoPrediction
    ELSE /\ res.id \in DOMAIN coll
         /\ DOMAIN res = DOMAIN coll[res.id] \cup {"id"}
         /\ \A k \in DOMAIN coll[res.id] : res[k] = coll[res.id][k]
         /\ \A other \in DOMAIN coll :
              coll[other].createdAt <= coll[res.id].createdAt

\* C26: get_latest_predictions by a signed-in caller succeeds whatever kinds
\* of prediction the caller has, returns for each of the three kinds, on its
\* own, the caller's record with the greatest creation timestamp or nothing
\* when the caller has none of that kind, and changes no stored record.
C26_LatestOfEachKind ==
  [][\A u \in Users :
       get_latest_predictions(u)
         => /\ last'.code = "OK"
            /\ IsLatestOf(last'.chatgptPrediction, predictions[u])
            /\ IsLatestOf(last'.mlPrediction, ml_predictions[u])
            /\ IsLatestOf(last'.combinedPrediction, combined_predictions[u])
            /\ UNCHANGED <<store, events>>]_vars

\* the query answered a caller who has two prompt predictions, one regression
\* prediction and no combined prediction
C26_NewerOfTwoAndNone ==
  /\ last.op = "get_latest_predictions"
  /\ last.code = "OK"
  /\ DOMAIN predictions["u1"] = {1, 2}
  /\ last.chatgptPrediction.id = 2
  /\ last.mlPrediction.id = 1
  /\ DOMAIN combined_predictions["u1"] = {}
  /\ last.combinedPrediction = NoPrediction

\* C27: add_training_data gives the example the id (largest id of the
\* training set it read) + 1, whatever the training set holds when it writes;
\* two calls that read the same training set before either writes are given the
\* same id, the id assignment not being atomic.
C27_IdComesFromTheSnapshot ==
  [][\A n \in DOMAIN calls :
       (/\ calls[n].op = "add_training_data"
        /\ calls[n].stored # Empty
        /\ add_training_data_set(n))
         => LET rows == training_data'.students
                assigned == LargestId(calls[n].stored) + 1
            IN /\ rows[Len(rows)].id = assigned
               /\ \A m \in DOMAIN calls' :
                    (/\ calls'[m].op = "add_training_data"
                     /\ calls'[m].stored = calls[n].stored)
                      => LargestId(calls'[m].stored) + 1 = assigned]_vars

\* two calls read the same training set; one has written its example under
\* the next id, the other is still to write and will use that id again
C27_SecondCallHoldsSameSnapshot ==
  \E n \in DOMAIN calls :
    /\ calls[n].op = "add_training_data"
    /\ calls[n].stored # Empty
    /\ training_data # Empty
    /\ LET read == calls[n].stored.students
           now == training_data.students
       IN /\ Len(now) = Len(read) + 1
          /\ SubSeq(now, 1, Len(read)) = read
          /\ now[Len(now)].id = LargestId(calls[n].stored) + 1

\* C28: when extractions of two files of one owner and type overlap, each
\* write replaces the whole record: after a write documents/{type} is exactly
\* the record of the invocation that wrote, its text and its file reference
\* from that one extraction, whatever an earlier write had stored; the record
\* of the last write is the one that stays.
C28_LastWriteIsWholeRecord ==
  [][\A n \in DOMAIN calls, j \in LlmParses :
       (/\ calls[n].op = "process_uploaded_pdf"
        /\ process_uploaded_pdf_set(n, j))
         => LET p == calls[n].file_path
            IN /\ p.type \in DOMAIN docs'[p.user]
               /\ docs'[p.user][p.type]
                    = [text |-> calls[n].text, filePath |-> p,
                       uploadedAt |-> ServerTimestamp]]_vars

\* the second syllabus of u1 has been extracted and written while the
\* extraction of the first, which holds another text, is still to write
C28_SecondWrittenFirstInFlight ==
  /\ "syllabus" \in DOMAIN docs["u1"]
  /\ docs["u1"]["syllabus"].filePath = FilePath("u1", "syllabus", 2)
  /\ docs["u1"]["syllabus"].text = "text"
  /\ \E n \in DOMAIN calls :
       /\ calls[n].op = "process_uploaded_pdf"
       /\ calls[n].file_path = FilePath("u1", "syllabus", 1)
       /\ calls[n].text = ""

\* documents/{type} of user u holds the text of the file of upload record rec
ExtractedFrom(dcs, u, rec) ==
  /\ rec.documentType \in DOMAIN dcs[u]
  /\ dcs[u][rec.documentType].filePath = rec.filePath

\* the file of upload id of user u is no longer waiting for the trigger,
\* documents/{type} holds the text of another file, and the record was still
\* 'uploaded' then
Superseded(ups, dcs, evs, u, id) ==
  /\ id \in DOMAIN ups[u]
  /\ ups[u][id].status = "uploaded"
  /\ ups[u][id].filePath \notin evs
  /\ ups[u][id].documentType \in DOMAIN dcs[u]
  /\ ~ExtractedFrom(dcs, u, ups[u][id])

\* C29: the status of an upload record changes only in a get_document_status
\* step, only from 'uploaded' to 'processed', and only when documents/{type}
\* exists with the file path of the upload record; in that case the call
\* stores and reports 'processed', in every other case it reports the stored
\* status and changes nothing.  An upload record that was superseded while
\* 'uploaded' stays superseded and 'uploaded'.
C29_ProcessedOnlyForTheStoredFile ==
  [][/\ \A u \in Users : \A id \in DOMAIN uploads[u] :
          /\ id \in DOMAIN uploads'[u]
          /\ uploads'[u][id].status # uploads[u][id].status =>
               /\ uploads[u][id].status = "uploaded"
               /\ uploads'[u][id].status = "processed"
               /\ last'.op = "get_document_status"
               /\ ExtractedFrom(docs, u, uploads[u][id])
     /\ last'.op = "get_document_status" =>
          \A u \in Users : \A id \in DOMAIN uploads[u] :
            get_document_status(u, id) =>
              /\ last'.code = "OK"
              /\ UNCHANGED <<docs, structured, events, predictions,
                             ml_predictions, combined_predictions,
                             training_data>>
              /\ IF ExtractedFrom(docs, u, uploads[u][id])
                   THEN /\ last'.status = "processed"
                        /\ uploads' = [uploads EXCEPT
                                         ![u][id].status = "processed"]
                   ELSE /\ last'.status = uploads[u][id].status
                        /\ UNCHANGED uploads
     /\ \A u \in Users, id \in 1..MaxIds :
          Superseded(uploads, docs, events, u, id)
            => Superseded(uploads', docs', events', u, id)]_vars

\* the first syllabus was superseded by the second before it was queried, and
\* the query of the first reported 'uploaded'
C29_SupersededUploadQueried ==
  /\ DOMAIN uploads["u1"] = {1, 2}
  /\ uploads["u1"][1].documentType = "syllabus"
  /\ uploads["u1"][2].documentType = "syllabus"
  /\ Superseded(uploads, docs, events, "u1", 1)
  /\ ExtractedFrom(docs, "u1", uploads["u1"][2])
  /\ last = [op |-> "get_document_status", code |-> "OK",
             status |-> "uploaded"]

\* the ids of the rows of a training set, in order
RowIds(stored) == [i \in 1..Len(stored.students) |-> stored.students[i].id]

\* C30: a predict_with_linear_regression call leaves an existing training set
\* as it is; when there is none, a call that passes validation stores one of
\* exactly three examples with the ids 1, 2, 3 before it fits, and a call that
\* is turned down stores none.  A successful call adds one record to the
\* caller's ml_predictions and writes nothing else under any user; a call that
\* fails adds no record at all.
C30_SeedsOnceWritesOnePrediction ==
  [][last'.op = "predict_with_linear_regression" =>
       \A u \in Users, d \in StudentInputs, g \in MlGrades :
         predict_with_linear_regression(u, d, g)
           => /\ training_data # Empty => training_data' = training_data
              /\ (training_data = Empty
                    /\ last'.code \in {"OK", "INTERNAL"})
                   => /\ training_data' # Empty
                      /\ RowIds(training_data') = <<1, 2, 3>>
              /\ (training_data = Empty
                    /\ last'.code \notin {"OK", "INTERNAL"})
                   => training_data' = Empty
              /\ UNCHANGED <<uploads, docs, structured, predictions,
                             combined_predictions>>
              /\ IF last'.code = "OK"
                   THEN /\ \E id \in DOMAIN ml_predictions'[u]
                                       \ DOMAIN ml_predictions[u] :
                             DOMAIN ml_predictions'[u]
                               = DOMAIN ml_predictions[u] \cup {id}
                        /\ Kept(ml_predictions, ml_predictions')
                        /\ \A v \in Users \ {u} :
                             ml_predictions'[v] = ml_predictions[v]
                   ELSE ml_predictions' = ml_predictions]_vars

\* a regression prediction succeeded on a training set that was seeded by an
\* earlier call and has grown by an added example since
C30_PredictedOnGrownSet ==
  /\ last.op = "predict_with_linear_regression"
  /\ last.code = "OK"
  /\ training_data # Empty
  /\ Len(training_data.students) = 4
  /\ RowIds(training_data) = <<1, 2, 3, 4>>
  /\ DOMAIN ml_predictions["u1"] = {1}

====
